---- MODULE Spec2Model ----
(***************************************************************************)
(* Model of the Perplexity chat client (PerplexityClient.py) and of the    *)
(* Streamlit chat page that drives it (app.py).                            *)
(*                                                                         *)
(* A Python str is a sequence of tokens (<<>> is the empty string, \o is   *)
(* string concatenation); None is a token sequence no str is equal to.     *)
(* SpecClient drives the client class directly, one generator step at a    *)
(* time; Spec is the chat page, one action per page interaction.           *)
(***************************************************************************)
EXTENDS Integers, Sequences, FiniteSets, TLC

\* ---- bounds -------------------------------------------------------------
MaxChunks == 2      \* chunks in one provider stream
MaxTurns == 2       \* submissions in one chat session

\* ---- Python values ------------------------------------------------------
None == <<"<None>">>

Truthy(s) == s # None /\ s # <<>>

\* Python `a or b` on str-or-None operands
Or(a, b) == IF Truthy(a) THEN a ELSE b

RECURSIVE Concat(_)
\* "".join(fragments)
Concat(fragments) ==
  IF fragments = <<>> THEN <<>> ELSE Head(fragments) \o Concat(Tail(fragments))

Msg(role, content) == [role |-> role, content |-> content]

\* the value of the `messages` parameter when it is None
NoMessages == <<Msg("<None>", None)>>

\* ---- errors -------------------------------------------------------------
NoError == [type |-> "None", desc |-> "None"]

ConfigurationError ==
  [type |-> "ValueError", desc |-> "Perplexity API key not provided"]

InitializationError == [type |-> "Exception", desc |-> "client init failed"]

ApiError == [type |-> "OpenAIError", desc |-> "rate limit"]

UnexpectedError == [type |-> "Exception", desc |-> "connection reset"]

IndexError == [type |-> "IndexError", desc |-> "list index out of range"]

ProviderErrors == {ApiError, UnexpectedError}

\* ---- PerplexityClient ---------------------------------------------------
DEFAULT_BASE_URL == <<"https://api.perplexity.ai">>

DEFAULT_MODEL == <<"sonar">>

DEFAULT_SYSTEM_PROMPT == <<"Be precise and concise.">>

NoClient == [api_key |-> None, base_url |-> None, default_model |-> None]

\* __init__ without the check of the resolved key
InitNoKeyCheck(api_key, base_url, default_model, environ_key, openai_ok) ==
  IF ~openai_ok
  THEN [error |-> InitializationError, client |-> NoClient]
  ELSE [error |-> NoError,
        client |-> [api_key |-> Or(api_key, environ_key),
                    base_url |-> Or(base_url, DEFAULT_BASE_URL),
                    default_model |-> Or(default_model, DEFAULT_MODEL)]]

\* PerplexityClient.__init__: the error it raises and the object it builds.
\* environ_key is os.environ.get("PERPLEXITY_API_KEY"); openai_ok tells
\* whether OpenAI(...) can build the handle.
PerplexityClient(api_key, base_url, default_model, environ_key, openai_ok) ==
  LET key == Or(api_key, environ_key) IN
  IF ~Truthy(key)
  THEN [error |-> ConfigurationError, client |-> NoClient]
  ELSE IF ~openai_ok
  THEN [error |-> InitializationError, client |-> NoClient]
  ELSE [error |-> NoError,
        client |-> [api_key |-> key,
                    base_url |-> Or(base_url, DEFAULT_BASE_URL),
                    default_model |-> Or(default_model, DEFAULT_MODEL)]]

\* chat_messages with `if messages:` in place of `if messages is not None:`
ChatMessagesTruthy(message, system_prompt, messages) ==
  IF messages # NoMessages /\ messages # <<>>
  THEN messages
  ELSE << Msg("system", Or(system_prompt, DEFAULT_SYSTEM_PROMPT)),
          Msg("user", message) >>

\* chat, lines 82-90: the message list of the request
chat_messages(message, system_prompt, messages) ==
  IF messages # NoMessages
  THEN messages
  ELSE << Msg("system", Or(system_prompt, DEFAULT_SYSTEM_PROMPT)),
          Msg("user", message) >>

\* ---- the generator that chat() is ---------------------------------------
\* chat's body contains `yield`, so a call of chat runs none of the body: it
\* builds a generator whose frame holds the arguments.
NoGen ==
  [state |-> "none", self |-> NoClient, message |-> None, model |-> None,
   system_prompt |-> None, messages |-> NoMessages, stream |-> FALSE,
   rest |-> <<>>, end_err |-> NoError]

Generator(self, message, model, system_prompt, messages, stream) ==
  [state |-> "created", self |-> self, message |-> message, model |-> model,
   system_prompt |-> system_prompt, messages |-> messages, stream |-> stream,
   rest |-> <<>>, end_err |-> NoError]

\* what the call expression client.chat(...) evaluates to
chat(self, message, model, system_prompt, messages, stream) ==
  [ret |-> [kind |-> "generator", value |-> None],
   gen |-> Generator(self, message, model, system_prompt, messages, stream)]

NoRequest ==
  [api_key |-> None, base_url |-> None, model |-> None,
   messages |-> NoMessages, stream |-> FALSE]

\* self.client.chat.completions.create(model=, messages=, [stream=True])
ChatRequest(g) ==
  [api_key |-> g.self.api_key, base_url |-> g.self.base_url,
   model |-> Or(g.model, g.self.default_model),
   messages |-> chat_messages(g.message, g.system_prompt, g.messages),
   stream |-> g.stream]

\* ---- the provider -------------------------------------------------------
\* One streamed chunk. kind tells how much of chunk.choices[0].delta exists.
ChunkKinds == {"no_choices_attr", "empty_choices", "no_delta", "delta"}

Chunk(kind, content) == [kind |-> kind, content |-> content]

Fragments == { <<"a">>, <<"b">> }

Chunks ==
  { Chunk(k, None) : k \in ChunkKinds } \cup
  { Chunk("delta", c) : c \in {<<>>} \cup Fragments }

RECURSIVE SeqsUpTo(_, _)
SeqsUpTo(S, n) ==
  IF n = 0 THEN { <<>> }
  ELSE LET shorter == SeqsUpTo(S, n - 1) IN
       shorter \cup { Append(s, x) : s \in shorter, x \in S }

NoResponse ==
  [create_err |-> NoError, chunks |-> <<>>, end_err |-> NoError,
   choices |-> <<>>]

\* responses to a request with stream=True: create() raises, or it gives a
\* stream of chunks that ends normally or with an error
StreamResponses(streams) ==
  { [NoResponse EXCEPT !.create_err = e] : e \in ProviderErrors } \cup
  { [NoResponse EXCEPT !.chunks = cs, !.end_err = e] :
      cs \in streams, e \in {NoError} \cup ProviderErrors }

ClientStreamResponses == StreamResponses(SeqsUpTo(Chunks, MaxChunks))

\* the pieces of the answer the chat page's provider streams
Answer == << "a", "b", "c", "d" >>

RECURSIVE PageStream(_, _)
\* the stream of a given shape: a content delta carries the next piece of
\* the answer, the other deltas (role, finish) carry no content
PageStream(shape, j) ==
  IF shape = <<>> THEN <<>>
  ELSE IF Head(shape)
  THEN << Chunk("delta", << Answer[((j - 1) % Len(Answer)) + 1] >>) >>
         \o PageStream(Tail(shape), j + 1)
  ELSE << Chunk("delta", None) >> \o PageStream(Tail(shape), j)

PageResponses ==
  StreamResponses({ PageStream(sh, 1) : sh \in SeqsUpTo(BOOLEAN, MaxChunks) })

\* responses to a request without stream: create() raises, or it gives a
\* completion whose choices carry message contents
PlainResponses ==
  { [NoResponse EXCEPT !.create_err = e] : e \in ProviderErrors } \cup
  { [NoResponse EXCEPT !.choices = cs] :
      cs \in SeqsUpTo({None} \cup Fragments, 2) }

RECURSIVE FullContent(_)
\* the text a stream of chunks carries: its content deltas, joined
FullContent(chunks) ==
  IF chunks = <<>> THEN <<>>
  ELSE LET c == Head(chunks) IN
       (IF c.kind = "delta" /\ c.content # None THEN c.content ELSE <<>>)
         \o FullContent(Tail(chunks))

\* ---- one step of the generator ------------------------------------------
Yield(g, value) ==
  [gen |-> [g EXCEPT !.state = "suspended"], out |-> "yield",
   value |-> value, error |-> NoError]

StopIteration(g, value) ==
  [gen |-> [g EXCEPT !.state = "done", !.rest = <<>>, !.end_err = NoError],
   out |-> "stop", value |-> value, error |-> NoError]

Raise(g, e) ==
  [gen |-> [g EXCEPT !.state = "raised", !.rest = <<>>, !.end_err = NoError],
   out |-> "raise", value |-> None, error |-> e]

\* an except clause that logs and does not re-raise
ExceptSwallow(g, e) == StopIteration(g, None)

\* chat, lines 114-119: both except clauses log and re-raise
chat_except(g, e) ==
  IF e.type = "OpenAIError" THEN Raise(g, e) ELSE Raise(g, e)

\* the test of lines 99-105 with `content is not None` for `if content:`
ChunkYieldsNotNone(chunk) ==
  /\ chunk.kind # "no_choices_attr"
  /\ chunk.kind # "empty_choices"
  /\ chunk.kind = "delta"
  /\ chunk.content # None

\* chat, lines 99-105: does this chunk make the generator yield?
ChunkYields(chunk) ==
  /\ chunk.kind # "no_choices_attr"      \* hasattr(chunk, "choices")
  /\ chunk.kind # "empty_choices"        \* chunk.choices
  /\ chunk.kind = "delta"                \* hasattr(chunk.choices[0], "delta")
  /\ Truthy(chunk.content)               \* if content:

RECURSIVE chat_loop(_)
\* chat, lines 98-106: run the for loop up to its next yield, or to its end
chat_loop(g) ==
  IF g.rest = <<>>
  THEN IF g.end_err # NoError
       THEN chat_except(g, g.end_err)
       ELSE StopIteration(g, None)
  ELSE LET chunk == Head(g.rest)
           g1 == [g EXCEPT !.rest = Tail(g.rest)]
       IN  IF ChunkYields(chunk) THEN Yield(g1, chunk.content)
           ELSE chat_loop(g1)

\* next(generator): resp is the provider's response to the request, which
\* the first step issues
chat_next(g, resp) ==
  CASE g.state = "created" ->
         IF resp.create_err # NoError THEN chat_except(g, resp.create_err)
         ELSE IF g.stream
         THEN chat_loop([g EXCEPT !.rest = resp.chunks,
                                  !.end_err = resp.end_err])
         ELSE IF resp.choices = <<>> THEN chat_except(g, IndexError)
         ELSE StopIteration(g, Head(resp.choices))
    [] g.state = "suspended" -> chat_loop(g)
    [] OTHER -> StopIteration(g, None)

RECURSIVE Drain(_, _, _)
\* `for chunk in generator`: call next() until the generator stops or raises
Drain(g, resp, acc) ==
  LET r == chat_next(g, resp) IN
  IF r.out = "yield" THEN Drain(r.gen, resp, Append(acc, r.value))
  ELSE [yielded |-> acc, out |-> r.out, error |-> r.error,
        value |-> r.value, gen |-> r.gen]

\* the error the provider has raised once a step has had the outcome `out`
ProviderRaised(g, resp, out) ==
  IF g.state = "created" /\ resp.create_err # NoError THEN resp.create_err
  ELSE IF g.stream /\ out # "yield" THEN resp.end_err
  ELSE NoError

\* ---- app.py -------------------------------------------------------------
AVAILABLE_MODELS ==
  << <<"sonar-pro">>, <<"sonar">>, <<"sonar-deep-research">>, <<"r1-1776">> >>

\* st.session_state["model"]; the page's model selector is not modelled
SessionModel == AVAILABLE_MODELS[1]

ErrorFragment(e) == << "[Error: ", e.desc, "]" >>

\* stream_perplexity_response with an except clause that yields nothing
StreamDropError(self, msgs, model, stream, resp) ==
  LET call == chat(self, None, model, None, msgs, stream)
      run == Drain(call.gen, resp, <<>>)
  IN  [fragments |-> run.yielded, call |-> call, run |-> run]

\* stream_perplexity_response, consumed to its end: the fragments it yields
stream_perplexity_response(self, msgs, model, stream, resp) ==
  LET call == chat(self, None, model, None, msgs, stream)
      run == Drain(call.gen, resp, <<>>)
  IN  [fragments |-> run.yielded \o
                     (IF run.out = "raise"
                      THEN << ErrorFragment(run.error) >> ELSE << >>),
       call |-> call, run |-> run]

ContextPrefix(pdf) == << "Context from PDF:", "NL" >> \o pdf \o << "NL", "NL" >>

WithContext(pdf, m) == Msg("user", ContextPrefix(pdf) \o m.content)

HasUser(history) == \E i \in 1..Len(history) : history[i].role = "user"

FirstUser(history) ==
  CHOOSE i \in 1..Len(history) :
    /\ history[i].role = "user"
    /\ \A j \in 1..(i - 1) : history[j].role # "user"

\* the loop of lines 107-113 without its `break`
RewriteEveryUser(history, pdf) ==
  [i \in 1..Len(history) |->
     IF history[i].role = "user" THEN WithContext(pdf, history[i])
     ELSE history[i]]

\* app.py, lines 106-113: the rewrite of the first user message
RewriteFirstUser(history, pdf) ==
  IF Truthy(pdf) /\ history # <<>> /\ HasUser(history)
  THEN [history EXCEPT ![FirstUser(history)] = WithContext(pdf, @)]
  ELSE history

\* lines 101-114 with chat_history aliasing the stored list
ComposeNoCopy(stored, sys, pdf) ==
  [stored |-> RewriteFirstUser(stored, pdf),
   messages |-> << Msg("system", sys) >> \o RewriteFirstUser(stored, pdf)]

\* app.py, lines 101-114: the outgoing list, and the stored list afterwards
ComposeMessages(stored, sys, pdf) ==
  LET chat_history == stored                \* .copy()
  IN  [stored |-> stored,
       messages |-> << Msg("system", sys) >>
                      \o RewriteFirstUser(chat_history, pdf)]

\* ---- state --------------------------------------------------------------
VARIABLES
  env_key,        \* os.environ.get("PERPLEXITY_API_KEY")
  openai_ok,      \* whether OpenAI(...) can build a handle here
  client,         \* the last PerplexityClient built, NoClient if none
  ctor_arg,       \* api_key argument of the last construction
  ctor_error,     \* what the last construction raised
  gen,            \* the generator of the last chat() call
  ret,            \* what the last chat() call returned to its caller
  request,        \* the request this call has placed with the provider
  provider,       \* the provider's response to that request
  prov_err,       \* the error the provider has raised in this call
  yielded,        \* the fragments the generator has yielded, in order
  raised,         \* the error next() has raised to the caller
  stop_value,     \* the value carried by StopIteration
  messages,       \* st.session_state["messages"]
  pdf_content,    \* st.session_state["pdf_content"]
  system_prompt,  \* st.session_state["system_prompt"]
  handler,        \* how the last submission handler ended
  turns           \* submissions so far

envVars == << env_key, openai_ok >>

clientVars == << client, ctor_arg, ctor_error >>

callVars ==
  << gen, ret, request, provider, prov_err, yielded, raised, stop_value >>

pageVars == << messages, pdf_content, system_prompt, handler, turns >>

vars == << envVars, clientVars, callVars, pageVars >>

NoRet == [kind |-> "none", value |-> None]

EnvKeys == { None, <<>>, <<"env-key">> }

KeyArgs == { None, <<>>, <<"arg-key">> }

InitCommon ==
  /\ env_key \in EnvKeys
  /\ openai_ok \in BOOLEAN
  /\ client = NoClient
  /\ ctor_arg = None
  /\ ctor_error = NoError
  /\ gen = NoGen
  /\ ret = NoRet
  /\ request = NoRequest
  /\ provider = NoResponse
  /\ prov_err = NoError
  /\ yielded = <<>>
  /\ raised = NoError
  /\ stop_value = None
  /\ messages = <<>>
  /\ pdf_content = <<>>
  /\ system_prompt = DEFAULT_SYSTEM_PROMPT
  /\ handler = "none"
  /\ turns = 0

\* ---- SpecClient: a caller of the client class ---------------------------
MessageArgs == { None, <<"hi">> }

ModelArgs == { None }

SystemPromptArgs == { None, <<>>, <<"Be brief.">> }

MessagesArgs ==
  { NoMessages,
    <<>>,
    << Msg("system", <<"Be brief.">>) >>,
    << Msg("system", <<"Be brief.">>), Msg("user", <<"q">>),
       Msg("assistant", <<"a">>), Msg("user", <<"q2">>) >> }

\* client = PerplexityClient(api_key)
NewClient(api_key) ==
  LET r == PerplexityClient(api_key, None, None, env_key, openai_ok) IN
  /\ client' = r.client
  /\ ctor_arg' = api_key
  /\ ctor_error' = r.error
  /\ UNCHANGED << envVars, callVars, pageVars >>

\* g = client.chat(message, model, system_prompt, messages, stream)
CallChat(message, model, sys, msgs, stream) ==
  /\ client # NoClient
  /\ gen.state = "none"
  /\ LET c == chat(client, message, model, sys, msgs, stream) IN
     /\ gen' = c.gen
     /\ ret' = c.ret
  /\ request' = NoRequest
  /\ provider' = NoResponse
  /\ prov_err' = NoError
  /\ yielded' = <<>>
  /\ raised' = NoError
  /\ stop_value' = None
  /\ UNCHANGED << envVars, clientVars, pageVars >>

\* next(g), the provider answering the request with resp
StepWith(resp) ==
  LET r == chat_next(gen, resp) IN
  /\ gen' = r.gen
  /\ request' = IF gen.state = "created" THEN ChatRequest(gen) ELSE request
  /\ provider' = resp
  /\ prov_err' = ProviderRaised(gen, resp, r.out)
  /\ yielded' = IF r.out = "yield" THEN Append(yielded, r.value) ELSE yielded
  /\ raised' = r.error
  /\ stop_value' = IF r.out = "stop" THEN r.value ELSE stop_value
  /\ UNCHANGED << envVars, clientVars, ret, pageVars >>

\* the first next(g): the body runs from its top and places the request
FirstNext ==
  /\ gen.state = "created"
  /\ \E resp \in (IF gen.stream THEN ClientStreamResponses
                  ELSE PlainResponses) : StepWith(resp)

\* a later next(g): the loop resumes after its yield
LaterNext ==
  /\ gen.state = "suspended"
  /\ StepWith(provider)

Construct == \E k \in KeyArgs : NewClient(k)

Call ==
  \E m \in MessageArgs, mo \in ModelArgs, sp \in SystemPromptArgs,
     ms \in MessagesArgs, st \in BOOLEAN : CallChat(m, mo, sp, ms, st)

NextClient == Construct \/ Call \/ FirstNext \/ LaterNext

SpecClient == InitCommon /\ [][NextClient]_vars

\* ---- Spec: the chat page ------------------------------------------------
Prompts == { <<"q1">>, <<"q2">> }

PdfTexts == { <<>>, <<"doc">> }

SystemPrompts == { DEFAULT_SYSTEM_PROMPT, <<"Be brief.">> }

\* a run of the page script without a chat submission (lines 96-124 are
\* skipped): the locals of the previous run are gone
NoSubmission ==
  /\ gen' = NoGen
  /\ ret' = NoRet
  /\ request' = NoRequest
  /\ provider' = NoResponse
  /\ prov_err' = NoError
  /\ yielded' = <<>>
  /\ raised' = NoError
  /\ stop_value' = None
  /\ handler' = "none"
  /\ UNCHANGED << envVars, clientVars, messages, turns >>

\* sidebar, lines 39-45: a PDF is uploaded and its text extracted
UploadPdf(text) ==
  /\ pdf_content' = text
  /\ UNCHANGED system_prompt
  /\ NoSubmission

\* sidebar, lines 54-56: the system prompt is edited
EditSystemPrompt(text) ==
  /\ system_prompt' = text
  /\ UNCHANGED pdf_content
  /\ NoSubmission

\* lines 98-124: the handler once the client is built; s is the consumed
\* stream_perplexity_response(client, messages, model, stream=True)
Respond(built, s, resp) ==
  /\ messages' = Append(built.stored,
                        Msg("assistant", Concat(s.fragments)))
  /\ handler' = "completed"
  /\ gen' = s.run.gen
  /\ ret' = s.call.ret
  /\ request' = ChatRequest(s.call.gen)
  /\ provider' = resp
  /\ prov_err' = ProviderRaised(s.call.gen, resp, s.run.out)
  /\ yielded' = s.run.yielded
  /\ raised' = s.run.error
  /\ stop_value' = s.run.value

\* lines 96-124: the handler of one chat submission
Submit(prompt) ==
  /\ turns < MaxTurns
  /\ Truthy(prompt)
  /\ turns' = turns + 1
  /\ LET stored1 == Append(messages, Msg("user", prompt))
         ctor == PerplexityClient(None, None, None, env_key, openai_ok)
     IN  /\ client' = ctor.client
         /\ ctor_arg' = None
         /\ ctor_error' = ctor.error
         /\ IF ctor.error # NoError
            THEN /\ messages' = stored1
                 /\ handler' = "aborted"
                 /\ UNCHANGED callVars
            ELSE \E built \in { ComposeMessages(stored1, system_prompt,
                                                pdf_content) } :
                 \E resp \in PageResponses :
                 \E s \in { stream_perplexity_response(
                              ctor.client, built.messages, SessionModel,
                              TRUE, resp) } :
                 Respond(built, s, resp)
  /\ UNCHANGED << envVars, pdf_content, system_prompt >>

Upload == \E t \in PdfTexts : UploadPdf(t)

Edit == \E t \in SystemPrompts : EditSystemPrompt(t)

Submission == \E p \in Prompts : Submit(p)

Next == Upload \/ Edit \/ Submission

Init == InitCommon

Spec == Init /\ [][Next]_vars

\* ---- claims about the client (SpecClient) --------------------------------
\* the text of the provider's stream up to the error it raised
BeforeError(resp) ==
  IF resp.create_err # NoError THEN <<>> ELSE FullContent(resp.chunks)

\* C1: a non-streaming call whose provider request succeeded has returned,
\* to its caller, the content of the first completion choice as a string.
C1_NonStreamingReturnsContent ==
  ( /\ gen.state = "done"
    /\ ~gen.stream
    /\ request # NoRequest
    /\ provider.create_err = NoError
    /\ provider.choices # <<>> )
  => ret = [kind |-> "str", value |-> Head(provider.choices)]

\* C2: the generator never yields an empty fragment, and when a stream has
\* completed without error the yielded fragments, joined in order, are the
\* full content that the provider's stream carries.
C2_StreamConcatenation ==
  /\ \A i \in 1..Len(yielded) : yielded[i] # <<>> /\ yielded[i] # None
  /\ (gen.stream /\ gen.state = "done")
       => Concat(yielded) = FullContent(provider.chunks)

C2_Witness ==
  /\ gen.stream
  /\ gen.state = "done"
  /\ Len(yielded) >= 1
  /\ \E i \in 1..Len(provider.chunks) :
       provider.chunks[i] \in { Chunk("delta", <<>>), Chunk("delta", None) }

\* C3: the message list of a placed request is the messages argument itself
\* whenever one was given (an empty list included), and otherwise the pair
\* system prompt (the given one, or the default), user input.
C3_RequestMessages ==
  request # NoRequest =>
    request.messages =
      IF gen.messages # NoMessages THEN gen.messages
      ELSE << [role |-> "system",
               content |-> IF gen.system_prompt \in {None, <<>>}
                           THEN <<"Be precise and concise.">>
                           ELSE gen.system_prompt],
              [role |-> "user", content |-> gen.message] >>

C3_Witness ==
  /\ request # NoRequest
  /\ gen.messages = <<>>
  /\ gen.system_prompt = <<"Be brief.">>
  /\ gen.message = <<"hi">>
  /\ request.messages = <<>>

\* C4: a client exists only with a non-empty key, the explicit argument
\* before the environment variable; with neither, construction raises the
\* configuration error and leaves no client; no request goes out without
\* a key.
C4_KeyResolution ==
  /\ client # NoClient =>
       /\ Truthy(client.api_key)
       /\ client.api_key = (IF Truthy(ctor_arg) THEN ctor_arg ELSE env_key)
  /\ (~Truthy(ctor_arg) /\ ~Truthy(env_key)) =>
       /\ client = NoClient
       /\ ctor_error \in {NoError, ConfigurationError}
  /\ request # NoRequest => Truthy(request.api_key)

C4_Witness ==
  /\ ctor_error = ConfigurationError
  /\ client = NoClient
  /\ ctor_arg = <<>>
  /\ env_key = <<>>

\* C5: once the provider has raised an error in a call, streaming or not,
\* next() has raised that same error to the caller, at the point of the
\* stream where it occurred: everything before it has been yielded and
\* stays yielded.
C5_ErrorsPropagate ==
  prov_err # NoError =>
    /\ gen.state = "raised"
    /\ raised = prov_err
    /\ Concat(yielded) = BeforeError(provider)

C5_Witness ==
  /\ prov_err = UnexpectedError
  /\ gen.stream
  /\ raised = UnexpectedError
  /\ Len(yielded) = 2

\* C8: every request placed with the provider has a message of role user.
C8_RequestHasUser ==
  request # NoRequest =>
    \E i \in 1..Len(request.messages) : request.messages[i].role = "user"

\* ---- claims about the chat page (Spec) ----------------------------------
\* C6: when the provider has raised an error during a turn, the turn has
\* ended by appending an assistant message whose text is the fragments
\* produced before the error, in order, then one "[Error: <description>]";
\* and the next submission is accepted.
C6_ErrorTurn ==
  prov_err # NoError =>
    /\ handler = "completed"
    /\ Len(messages) >= 2
    /\ messages[Len(messages) - 1].role = "user"
    /\ messages[Len(messages)] =
         [role |-> "assistant",
          content |-> BeforeError(provider)
                        \o << "[Error: ", prov_err.desc, "]" >>]
    /\ (turns < MaxTurns => ENABLED Submission)

C6_Witness ==
  /\ Len(messages) = 4
  /\ messages[2] =
       Msg("assistant", << "a", "b", "[Error: ", "connection reset", "]" >>)
  /\ prov_err # NoError
  /\ provider.create_err # NoError
  /\ messages[4] = Msg("assistant", << "[Error: ", "rate limit", "]" >>)

\* C7: in the request of a turn with a non-empty document text, the first
\* user message, and no other message, carries the document context in
\* front of its stored content; every other stored message is sent as
\* stored, after the system message.
C7_ContextOnFirstUserOnly ==
  [][ ( /\ turns' = turns + 1
        /\ handler' = "completed"
        /\ pdf_content # <<>> )
      => LET hist == SubSeq(messages', 1, Len(messages') - 1)
             out == Tail(request'.messages)
             users == { i \in 1..Len(hist) : hist[i].role = "user" }
             first == CHOOSE i \in users : \A j \in users : i <= j
         IN  /\ Head(request'.messages) = Msg("system", system_prompt)
             /\ Len(out) = Len(hist)
             /\ users # {}
             /\ out[first] =
                  Msg("user",
                      << "Context from PDF:", "NL" >> \o pdf_content
                        \o << "NL", "NL" >> \o hist[first].content)
             /\ \A i \in 1..Len(hist) : i # first => out[i] = hist[i]
             /\ Cardinality({ i \in 1..Len(hist) : out[i] # hist[i] }) = 1
    ]_vars

C7_Witness ==
  /\ turns = 2
  /\ handler = "completed"
  /\ pdf_content = <<"doc">>
  /\ Len(request.messages) = 4
  /\ request.messages[2] = WithContext(<<"doc">>, messages[1])
  /\ request.messages[3] = messages[2]
  /\ request.messages[4] = messages[3]
  /\ request.messages[4].content \in Prompts

\* C9: once a submission is over, it has appended one user message and one
\* assistant message: the stored conversation alternates user, assistant.
C9_Alternates ==
  /\ Len(messages) = 2 * turns
  /\ \A i \in 1..Len(messages) :
       messages[i].role = IF i % 2 = 1 THEN "user" ELSE "assistant"

\* C10: a step of the page leaves every stored message as it was and at
\* most appends the raw user input and then an assistant message.
C10_StoredUnchanged ==
  [][ LET n == Len(messages) IN
      /\ Len(messages') \in {n, n + 1, n + 2}
      /\ SubSeq(messages', 1, n) = messages
      /\ Len(messages') > n =>
           \E p \in Prompts : messages'[n + 1] = Msg("user", p)
      /\ Len(messages') = n + 2 => messages'[n + 2].role = "assistant"
    ]_vars

C10_Witness ==
  /\ Len(messages) = 4
  /\ pdf_content # <<>>
  /\ Len(request.messages) = 4
  /\ request.messages[2].content =
       ContextPrefix(pdf_content) \o messages[1].content
  /\ messages[1].content \in Prompts
  /\ messages[3].content \in Prompts

====
